---------------------------- MODULE Spec2Model ----------------------------
(***************************************************************************)
(* A model of the solar dashboard (src/solar_dashboard/app.py).            *)
(*                                                                         *)
(* Units.  A calendar date is its proleptic Gregorian ordinal (Python's    *)
(* date.toordinal()).  A time of day is minutes since midnight.  An        *)
(* energy quantity is an integer number of Wh (0.001 kWh), so that the     *)
(* 0.001 kWh generation threshold is the integer 1 and round(x, 2) is      *)
(* rounding to a multiple of 10.                                           *)
(***************************************************************************)
EXTENDS Integers, Sequences, FiniteSets, TLC

VARIABLES
    sd_solar_start,   \* suggest_date_range: argument solar_start
    sd_data_end,      \* suggest_date_range: argument data_end
    sd_result,        \* suggest_date_range: what the call produced
    in_consumption,   \* the annotated consumption frame handed to an analysis
    in_exports,       \* the annotated exports frame handed to an analysis
    stats_result,     \* get_summary_stats: what the call returned
    bat_result,       \* calculate_battery_recommendation: what the call returned
    fb_target,        \* find_battery_for_usage: argument target_kwh
    fb_result,        \* find_battery_for_usage: what the call returned
    sr_db,            \* PostcodeDatabase: the rows of the postcode file, in order
    sr_query,         \* PostcodeDatabase.search: argument query
    sr_limit,         \* PostcodeDatabase.search: argument limit
    sr_result,        \* PostcodeDatabase.search: what the call returned
    disk,             \* the file system: path -> the rows of the CSV file there
    user_file,        \* the rows of the CSV file the user holds
    cli_data_file,    \* _cli_data_file
    session,          \* client -> the client's Flask session, a dict
    cache,            \* _data_cache: cache_key -> Dataset
    ingested,         \* cache_key -> how many times load_and_process_data
                      \* read the file and stored its Dataset since _data_cache was
                      \* last cleared
    resp,             \* the response of the request being answered
    work              \* get_data's request (client, request.args) and its own
                      \* copies of the frames, as it leaves them

vars == <<sd_solar_start, sd_data_end, sd_result, in_consumption, in_exports,
          stats_result, bat_result, fb_target, fb_result,
          sr_db, sr_query, sr_limit, sr_result,
          disk, user_file, cli_data_file, session, cache, ingested, resp, work>>

appVars == <<disk, user_file, cli_data_file, session, cache, ingested, resp, work>>

None == "None"

datesVars == <<sd_solar_start, sd_data_end, sd_result>>
analysisVars == <<in_consumption, in_exports, stats_result, bat_result>>
sizingVars == <<fb_target, fb_result>>
searchVars == <<sr_db, sr_query, sr_limit, sr_result>>

Pending == [raised |-> "pending"]
NoResponse == [status |-> 0]
EmptyDict == [k \in {} |-> None]

\* The parts of the state a specification does not use stay idle.
DatesIdle == sd_solar_start = 0 /\ sd_data_end = 0 /\ sd_result = Pending
AnalysisIdle ==
    /\ in_consumption = <<>> /\ in_exports = <<>>
    /\ stats_result = Pending /\ bat_result = Pending
SizingIdle == fb_target = [kind |-> "nan", n |-> 0, d |-> 1] /\ fb_result = 0
SearchIdle == sr_db = <<>> /\ sr_query = <<>> /\ sr_limit = 0 /\ sr_result = Pending
AppIdle ==
    /\ disk = EmptyDict /\ user_file = <<>> /\ cli_data_file = <<>>
    /\ session = EmptyDict /\ cache = EmptyDict /\ ingested = EmptyDict
    /\ resp = NoResponse /\ work = EmptyDict


(***************************************************************************)
(* datetime.date: the calendar arithmetic suggest_date_range relies on.    *)
(***************************************************************************)
IsLeap(y) == (y % 4 = 0) /\ ((y % 100 # 0) \/ (y % 400 = 0))

DaysInMonth(y, m) ==
    IF m = 2 THEN (IF IsLeap(y) THEN 29 ELSE 28)
    ELSE IF m \in {4, 6, 9, 11} THEN 30 ELSE 31

RECURSIVE DaysBeforeMonth(_, _)
DaysBeforeMonth(y, m) ==
    IF m = 1 THEN 0 ELSE DaysBeforeMonth(y, m - 1) + DaysInMonth(y, m - 1)

DaysBeforeYear(y) ==
    (y - 1) * 365 + ((y - 1) \div 4) - ((y - 1) \div 100) + ((y - 1) \div 400)

\* date(y, m, d).toordinal()
ToOrdinal(y, m, d) == DaysBeforeYear(y) + DaysBeforeMonth(y, m) + d

\* date.fromordinal(n).year
YearOf(n) ==
    LET guess == ((n - 1) * 400) \div 146097 + 1
    IN  IF DaysBeforeYear(guess + 1) < n THEN guess + 1
        ELSE IF DaysBeforeYear(guess) >= n THEN guess - 1
        ELSE guess

\* date.fromordinal(n).month
MonthOf(n) ==
    LET y == YearOf(n)
        doy == n - DaysBeforeYear(y)
    IN  CHOOSE m \in 1..12 :
            /\ DaysBeforeMonth(y, m) < doy
            /\ doy <= DaysBeforeMonth(y, m) + DaysInMonth(y, m)

\* date.fromordinal(n).day
DayOf(n) ==
    LET y == YearOf(n)
    IN  n - DaysBeforeYear(y) - DaysBeforeMonth(y, MonthOf(n))

ValueError == "ValueError"

\* Whether the constructor date(y, m, d) accepts its arguments; it raises
\* ValueError ("day is out of range for month") when it does not.
ValidDate(y, m, d) == m \in 1..12 /\ d >= 1 /\ d <= DaysInMonth(y, m)

(***************************************************************************)
(* suggest_date_range(solar_start, data_end)                               *)
(***************************************************************************)
FullYearDays == 365

\* The value returned, or the exception raised by a date(...) constructor.
suggest_date_range(solar_start, data_end) ==
    LET total_days == data_end - solar_start
        ey == YearOf(data_end) - 1
        em == MonthOf(data_end)
        ed == DayOf(data_end)
        sy == YearOf(solar_start) + 1
        sm == MonthOf(solar_start)
        sday == DayOf(solar_start)
    IN  IF total_days >= FullYearDays
        THEN IF ~ValidDate(ey, em, ed)
             THEN [raised |-> ValueError]
             ELSE IF ToOrdinal(ey, em, ed) < solar_start
             THEN IF ~ValidDate(sy, sm, sday)
                  THEN [raised |-> ValueError]
                  ELSE [raised |-> None,
                        suggested_start |-> solar_start,
                        suggested_end |-> IF ToOrdinal(sy, sm, sday) > data_end
                                          THEN data_end
                                          ELSE ToOrdinal(sy, sm, sday)]
             ELSE [raised |-> None,
                   suggested_start |-> ToOrdinal(ey, em, ed),
                   suggested_end |-> data_end]
        ELSE [raised |-> None,
              suggested_start |-> solar_start,
              suggested_end |-> data_end]

(***************************************************************************)
(* Numbers.  A float result is a rational [kind, n, d] or NaN: the code    *)
(* divides by counts and interpolates percentiles, and numpy's mean of an  *)
(* empty list and 0/0 are NaN, not exceptions.                             *)
(***************************************************************************)
Num(n) == [kind |-> "num", n |-> n, d |-> 1]
Rat(n, d) == [kind |-> "num", n |-> n, d |-> d]
NaN == [kind |-> "nan", n |-> 0, d |-> 1]
Inf == [kind |-> "inf", n |-> 0, d |-> 1]

\* a < b on floats: every comparison with NaN is false.
FloatLt(a, b) == a.kind = "num" /\ b.kind = "num" /\ a.n * b.d < b.n * a.d

Min(a, b) == IF a < b THEN a ELSE b

\* n / d rounded to the nearest integer, ties to the even one: round() and
\* numpy's round on a value that has been scaled to the wanted decimals.
RoundDiv(n, d) ==
    LET q == n \div d
        r == n % d
    IN  IF 2 * r < d THEN q
        ELSE IF 2 * r > d THEN q + 1
        ELSE IF q % 2 = 0 THEN q ELSE q + 1

\* round(x, k) of a float, the result counted in units of 10^-k of `unit`
\* (scale = unit / 10^-k expressed in the number's own unit).
RoundFloat(x, scale) ==
    IF x.kind = "nan" THEN NaN ELSE Num(RoundDiv(x.n, x.d * scale))

RECURSIVE SumQty(_)
SumQty(readings) ==
    IF readings = <<>> THEN 0
    ELSE Head(readings).qty + SumQty(Tail(readings))

DatesOf(readings) == {readings[i].date : i \in DOMAIN readings}

\* df.groupby('date')['ReadConsumption'].sum(), read at one date of its index
DailySum(readings, date) ==
    LET OnDate(r) == r.date = date IN SumQty(SelectSeq(readings, OnDate))

RECURSIVE SortedSeq(_)
\* The elements of a set of integers as an increasing sequence.
SortedSeq(S) ==
    IF S = {} THEN <<>>
    ELSE LET m == CHOOSE x \in S : \A y \in S : x <= y
         IN  <<m>> \o SortedSeq(S \ {m})

RECURSIVE SumSeq(_)
SumSeq(xs) == IF xs = <<>> THEN 0 ELSE Head(xs) + SumSeq(Tail(xs))

(***************************************************************************)
(* calculate_battery_recommendation(consumption, exports)                  *)
(***************************************************************************)
\* battery_efficiency = 0.90, as a percentage
battery_efficiency == 90

\* battery_sizes, in Wh
battery_sizes ==
    <<5000, 8000, 10000, 13500, 16000, 20000, 24000, 27000, 30000,
      32000, 35000, 40000, 45000, 48000, 56000, 64000, 72000, 80000>>

winter_months == {6, 7, 8}
summer_months == {12, 1, 2}

\* A slip: night taken as neither sunlight nor free window.
IsNightOutsideFreeWindow(r) == ~r.is_sunlight /\ ~r.is_free_window

IsNight(r) == ~r.is_sunlight

\* consumption[~consumption['is_sunlight']]
NightReadings(consumption) == SelectSeq(consumption, IsNight)

\* all_dates = daily_night.index: the dates that have a night reading
AllDates(consumption) == DatesOf(NightReadings(consumption))

\* daily_night[date]
DailyNight(consumption, date) == DailySum(NightReadings(consumption), date)

\* daily_export.reindex(all_dates, fill_value=0)[date]
DailyExport(exports, date) == DailySum(exports, date)

\* A slip: the efficiency loss left out.
UsableCapacityNoLoss(battery) == battery

\* usable_capacity = battery_kwh * battery_efficiency
UsableCapacity(battery) == (battery * battery_efficiency) \div 100

\* A slip: the night usage left uncovered instead of the part offset.
OffsetResidual(export_available, usable_capacity, night_usage) ==
    LET stored == IF export_available < usable_capacity
                  THEN export_available ELSE usable_capacity
    IN  night_usage - (IF stored < night_usage THEN stored ELSE night_usage)

\* stored = min(export_available, usable_capacity); offset = min(stored, night_usage)
Offset(export_available, usable_capacity, night_usage) ==
    LET stored == Min(export_available, usable_capacity)
    IN  Min(stored, night_usage)

RECURSIVE SumOver(_, _)
\* sum(f[x] for x in S)
SumOver(f, S) ==
    IF S = {} THEN 0
    ELSE LET x == CHOOSE y \in S : TRUE IN f[x] + SumOver(f, S \ {x})

InSeason(dates, months) == {date \in dates : MonthOf(date) \in months}

\* One season's coverage percentage, in tenths of a percent.  An empty
\* season divides by 1 (kWh); a season whose nights sum to 0 reports 0.
SeasonCoverage(savings, night, dates) ==
    LET season_total_nights == IF dates = {} THEN 1000 ELSE SumOver(night, dates)
    IN  IF season_total_nights > 0
        THEN RoundDiv(SumOver(savings, dates) * 1000, season_total_nights)
        ELSE 0

\* calculate_savings(battery_kwh), a closure over all_dates, daily_night and
\* daily_export: total_kwh_saved in 0.1 kWh, avg_daily_savings in 0.01 kWh,
\* the coverages in 0.1 %; savings_per_day is its local list, by date.
calculate_savings(battery, all_dates, daily_night, daily_export) ==
    LET savings_per_day ==
            [date \in all_dates |->
                Offset(daily_export[date], UsableCapacity(battery), daily_night[date])]
        total_savings == SumOver(savings_per_day, all_dates)
        night_sum == SumOver(daily_night, all_dates)
    IN  [size_kwh |-> battery,
         savings_per_day |-> savings_per_day,
         total_kwh_saved |-> RoundDiv(total_savings, 100),
         avg_daily_savings |->
            IF all_dates = {} THEN NaN
            ELSE Num(RoundDiv(total_savings, Cardinality(all_dates) * 10)),
         night_coverage_pct |->
            IF night_sum > 0 THEN RoundDiv(total_savings * 1000, night_sum) ELSE 0,
         summer_coverage_pct |->
            SeasonCoverage(savings_per_day, daily_night,
                           InSeason(all_dates, summer_months)),
         winter_coverage_pct |->
            SeasonCoverage(savings_per_day, daily_night,
                           InSeason(all_dates, winter_months))]

\* A slip: size > usable_needed instead of size >= usable_needed.
find_battery_strict(target) ==
    LET Covers(i) == /\ target.kind = "num"
                     /\ battery_sizes[i] * battery_efficiency * target.d
                            > 100 * target.n
        hits == {i \in DOMAIN battery_sizes : Covers(i)}
    IN  IF hits = {} THEN battery_sizes[Len(battery_sizes)]
        ELSE battery_sizes[CHOOSE i \in hits : \A j \in hits : i <= j]

\* find_battery_for_usage(target_kwh): the first size in catalog order with
\* size >= target_kwh / battery_efficiency, else the last of the catalog.
\* A NaN target compares false with every size.
find_battery_for_usage(target) ==
    LET Covers(i) == /\ target.kind = "num"
                     /\ battery_sizes[i] * battery_efficiency * target.d
                            >= 100 * target.n
        hits == {i \in DOMAIN battery_sizes : Covers(i)}
    IN  IF hits = {} THEN battery_sizes[Len(battery_sizes)]
        ELSE battery_sizes[CHOOSE i \in hits : \A j \in hits : i <= j]

RECURSIVE SortInts(_)
\* A sequence of integers in increasing order, repetitions kept.
SortInts(xs) ==
    IF xs = <<>> THEN <<>>
    ELSE LET i == CHOOSE k \in DOMAIN xs : \A j \in DOMAIN xs : xs[k] <= xs[j]
             rest == [j \in 1..(Len(xs) - 1) |-> IF j < i THEN xs[j] ELSE xs[j + 1]]
         IN  <<xs[i]>> \o SortInts(rest)

\* Series.mean()
Mean(xs) == IF xs = <<>> THEN NaN ELSE Rat(SumSeq(xs), Len(xs))

\* A slip: the order statistics counted from the largest value down.
QuantileFromTop(xs, q) ==
    IF xs = <<>> THEN NaN
    ELSE LET v == SortInts(xs)
             n == Len(xs)
             pos == (n - 1) * q
             lo == pos \div 100 + 1
             hi == IF lo < n THEN lo + 1 ELSE lo
         IN  Rat(100 * v[n + 1 - lo] + (pos % 100) * (v[n + 1 - hi] - v[n + 1 - lo]), 100)

\* Series.quantile(q), q in percent: linear interpolation between the two
\* order statistics around position (n - 1) * q.
Quantile(xs, q) ==
    IF xs = <<>> THEN NaN
    ELSE LET v == SortInts(xs)
             pos == (Len(xs) - 1) * q
             lo == pos \div 100 + 1
             hi == IF lo < Len(xs) THEN lo + 1 ELSE lo
         IN  Rat(100 * v[lo] + (pos % 100) * (v[hi] - v[lo]), 100)

\* The daily night sums of a frame, in date order.
NightSeries(consumption) ==
    LET dates == SortedSeq(AllDates(consumption))
    IN  [i \in DOMAIN dates |-> DailyNight(consumption, dates[i])]

InMonths(readings, months) ==
    LET Test(r) == MonthOf(r.date) \in months IN SelectSeq(readings, Test)

\* season_daily_night.quantile(q) with its two fallbacks to the all-data
\* mean: a season without consumption rows is the one-element series
\* [avg_night_consumption], a season without night rows is empty.
SeasonQuantile(consumption, months, q) ==
    LET season == InMonths(consumption, months)
        avg_night_consumption == Mean(NightSeries(consumption))
    IN  IF season = <<>> \/ NightSeries(season) = <<>>
        THEN avg_night_consumption
        ELSE Quantile(NightSeries(season), q)

\* marginal_benefits, each in 0.001 kWh per kWh
MarginalBenefits(analysis) ==
    [i \in 1..(Len(analysis) - 1) |->
        LET prev == analysis[i]
            curr == analysis[i + 1]
            size_increase == curr.size_kwh - prev.size_kwh
        IN  [from_size |-> prev.size_kwh,
             to_size |-> curr.size_kwh,
             marginal_benefit |->
                IF size_increase <= 0 THEN Num(0)
                ELSE IF curr.avg_daily_savings.kind = "nan" THEN NaN
                ELSE Num(RoundDiv((curr.avg_daily_savings.n
                                    - prev.avg_daily_savings.n) * 10000,
                                  size_increase))]]

calculate_battery_recommendation(consumption, exports) ==
    LET summer_night_p90 == SeasonQuantile(consumption, summer_months, 90)
        summer_night_p99 == SeasonQuantile(consumption, summer_months, 99)
        winter_night_p90 == SeasonQuantile(consumption, winter_months, 90)
        all_dates == AllDates(consumption)
        daily_night == [date \in all_dates |-> DailyNight(consumption, date)]
        daily_export == [date \in all_dates |-> DailyExport(exports, date)]
        battery_analysis ==
            [i \in DOMAIN battery_sizes |->
                calculate_savings(battery_sizes[i], all_dates, daily_night, daily_export)]
    IN  [all_dates |-> all_dates,
         daily_night |-> daily_night,
         daily_export |-> daily_export,
         summer_night_p90 |-> summer_night_p90,
         summer_night_p99 |-> summer_night_p99,
         winter_night_p90 |-> winter_night_p90,
         metrics |->
            [avg_night_consumption |->
                RoundFloat(Mean(NightSeries(consumption)), 10),
             median_night_consumption |->
                RoundFloat(Quantile(NightSeries(consumption), 50), 10),
             p75_night_consumption |->
                RoundFloat(Quantile(NightSeries(consumption), 75), 10),
             p90_night_consumption |->
                RoundFloat(Quantile(NightSeries(consumption), 90), 10),
             summer_night_p90 |-> RoundFloat(summer_night_p90, 10),
             summer_night_p99 |-> RoundFloat(summer_night_p99, 10),
             winter_night_p90 |-> RoundFloat(winter_night_p90, 10)],
         recommendations |->
            [minimum_kwh |-> find_battery_for_usage(summer_night_p90),
             sweet_spot_kwh |-> find_battery_for_usage(summer_night_p99),
             maximum_kwh |-> find_battery_for_usage(winter_night_p90)],
         battery_analysis |-> battery_analysis,
         marginal_benefits |-> MarginalBenefits(battery_analysis)]

(***************************************************************************)
(* get_summary_stats(consumption, exports)                                 *)
(***************************************************************************)
IsSunlight(r) == r.is_sunlight
IsFreeWindow(r) == r.is_free_window
\* A slip: the free window not taken out.
IsPaidSunlightAnyTime(r) == r.is_sunlight

IsPaidSunlight(r) == r.is_sunlight /\ ~r.is_free_window

\* round(x, 2) of a sum in Wh, in 0.01 kWh
Round2(wh) == RoundDiv(wh, 10)

\* round(total / num_days, 2): the totals are numpy floats, so a division
\* by zero is NaN (0 / 0) or inf (x / 0), not a ZeroDivisionError.
AvgPerDay(total, num_days) ==
    IF num_days = 0 THEN (IF total = 0 THEN NaN ELSE Inf)
    ELSE Num(RoundDiv(total, num_days * 10))

\* round(100 * part / total, 1) if total > 0 else 0, in 0.1 %
Pct(part, total) == IF total > 0 THEN RoundDiv(1000 * part, total) ELSE 0

get_summary_stats(consumption, exports) ==
    LET sunlight_consumption == SumQty(SelectSeq(consumption, IsSunlight))
        night_consumption == SumQty(SelectSeq(consumption, IsNight))
        total_consumption == SumQty(consumption)
        free_window_consumption == SumQty(SelectSeq(consumption, IsFreeWindow))
        paid_sunlight_consumption == SumQty(SelectSeq(consumption, IsPaidSunlight))
        sunlight_exports == SumQty(SelectSeq(exports, IsSunlight))
        total_exports == SumQty(exports)
        num_days == Cardinality(DatesOf(consumption))
    IN  [sunlight_consumption |-> Round2(sunlight_consumption),
         night_consumption |-> Round2(night_consumption),
         total_consumption |-> Round2(total_consumption),
         free_window_consumption |-> Round2(free_window_consumption),
         paid_sunlight_consumption |-> Round2(paid_sunlight_consumption),
         sunlight_exports |-> Round2(sunlight_exports),
         total_exports |-> Round2(total_exports),
         num_days |-> num_days,
         avg_daily_consumption |-> AvgPerDay(total_consumption, num_days),
         avg_daily_export |-> AvgPerDay(total_exports, num_days),
         sunlight_pct |-> Pct(sunlight_consumption, total_consumption),
         night_pct |-> Pct(night_consumption, total_consumption),
         free_window_pct |-> Pct(free_window_consumption, total_consumption)]

(***************************************************************************)
(* Strings that the code takes apart are sequences of one-character        *)
(* strings: "11:00" is <<"1", "1", ":", "0", "0">>.                        *)
(***************************************************************************)
Digits == <<"0", "1", "2", "3", "4", "5", "6", "7", "8", "9">>

IsDigit(c) == \E i \in DOMAIN Digits : Digits[i] = c

DigitValue(c) == (CHOOSE i \in DOMAIN Digits : Digits[i] = c) - 1

RECURSIVE DigitsValue(_)
DigitsValue(cs) ==
    IF cs = <<>> THEN 0
    ELSE 10 * DigitsValue(SubSeq(cs, 1, Len(cs) - 1)) + DigitValue(cs[Len(cs)])

RECURSIVE Strip(_)
\* str.strip() for blanks
Strip(cs) ==
    IF cs # <<>> /\ Head(cs) = " " THEN Strip(Tail(cs))
    ELSE IF cs # <<>> /\ cs[Len(cs)] = " " THEN Strip(SubSeq(cs, 1, Len(cs) - 1))
    ELSE cs

\* int(field): [ok, value]; not ok is the ValueError int() raises.  int()
\* accepts blanks around the number, a sign, and decimal digits with single
\* underscores between them.
ParseInt(field) ==
    LET text == Strip(field)
        signed == text # <<>> /\ text[1] \in {"-", "+"}
        body == IF signed THEN Tail(text) ELSE text
        digits == SelectSeq(body, IsDigit)
    IN  IF /\ body # <<>>
           /\ IsDigit(body[1])
           /\ IsDigit(body[Len(body)])
           /\ \A i \in DOMAIN body :
                 \/ IsDigit(body[i])
                 \/ body[i] = "_" /\ IsDigit(body[i - 1]) /\ IsDigit(body[i + 1])
        THEN [ok |-> TRUE,
              value |-> IF signed /\ text[1] = "-"
                        THEN 0 - DigitsValue(digits) ELSE DigitsValue(digits)]
        ELSE [ok |-> FALSE, value |-> 0]

RECURSIVE Split(_, _)
\* s.split(sep): the fields between the separators, empty fields kept
Split(str, sep) ==
    IF \A i \in DOMAIN str : str[i] # sep THEN <<str>>
    ELSE LET k == CHOOSE i \in DOMAIN str :
                      str[i] = sep /\ \A j \in 1..(i - 1) : str[j] # sep
         IN  <<SubSeq(str, 1, k - 1)>> \o Split(SubSeq(str, k + 1, Len(str)), sep)

\* A slip: a time without minutes taken as a full hour.
ParseWindowTimeLenient(text) ==
    LET fields == Split(text, ":")
    IN  IF Len(fields) \in {1, 2} /\ \A i \in DOMAIN fields : ParseInt(fields[i]).ok
        THEN [ok |-> TRUE,
              minutes |-> ParseInt(fields[1]).value * 60
                            + (IF Len(fields) = 2 THEN ParseInt(fields[2]).value ELSE 0)]
        ELSE [ok |-> FALSE, minutes |-> 0]

\* hour, minute = map(int, text.split(':')); minutes = hour * 60 + minute.
\* Not ok is the ValueError of int() or of unpacking other than two fields.
ParseWindowTime(text) ==
    LET fields == Split(text, ":")
    IN  IF Len(fields) = 2 /\ ParseInt(fields[1]).ok /\ ParseInt(fields[2]).ok
        THEN [ok |-> TRUE,
              minutes |-> ParseInt(fields[1]).value * 60 + ParseInt(fields[2]).value]
        ELSE [ok |-> FALSE, minutes |-> 0]

(***************************************************************************)
(* load_and_process_data: the part that reads a file's rows.               *)
(* A raw row is [date, time, Register, SolarFlag, qty].                    *)
(***************************************************************************)
\* df_filtered['Register'] == 1
IsConsumptionRow(r) == r.Register = 1

\* The frames handed to an analysis, split by register.
IsExportRow(r) == r.Register = 2

\* The generation threshold: export > 0.001 kWh
GenerationThreshold == 1

IsSolarExport(r) == r.Register = 2 /\ r.SolarFlag = TRUE

\* solar_exports = df[(df['Register'] == 2) & (df['SolarFlag'] == True)]
SolarExports(df) == SelectSeq(df, IsSolarExport)

\* A slip: >= 0 instead of > 0.
IsNonNegative(r) == r.qty >= 0

IsNonZero(r) == r.qty > 0

\* non_zero_exports = solar_exports[solar_exports['ReadConsumption'] > 0]
NonZeroExports(df) == SelectSeq(SolarExports(df), IsNonZero)

MinDate(df) == CHOOSE d \in DatesOf(df) : \A e \in DatesOf(df) : d <= e
MaxDate(df) == CHOOSE d \in DatesOf(df) : \A e \in DatesOf(df) : d >= e

\* A slip: the minimum taken over solar_exports, zero readings included.
SolarStartOfAnyExport(df) ==
    LET dates == {df[i].date : i \in {j \in DOMAIN df : df[j].Register = 2 /\ df[j].SolarFlag}}
    IN  CHOOSE d \in dates : \A e \in dates : d <= e

\* solar_start = non_zero_exports['date'].min()
SolarStart(df) == MinDate(NonZeroExports(df))

\* data_end = df['date'].max()
DataEnd(df) == MaxDate(df)

\* df_filtered = df[df['date'] >= solar_start]
FilterFromSolarStart(df, solar_start) ==
    LET Kept(r) == r.date >= solar_start IN SelectSeq(df, Kept)

\* solar_generating_times: the datetimes of the kept exports above 0.001 kWh
SolarGeneratingTimes(exports) ==
    {<<exports[i].date, exports[i].time>> :
        i \in {j \in DOMAIN exports : exports[j].qty > GenerationThreshold}}

\* The columns load_and_process_data adds to a frame.
Annotate(frame, solar_generating_times) ==
    [i \in DOMAIN frame |->
        [Register |-> frame[i].Register,
         SolarFlag |-> frame[i].SolarFlag,
         date |-> frame[i].date,
         time |-> frame[i].time,
         qty |-> frame[i].qty,
         is_sunlight |-> <<frame[i].date, frame[i].time>> \in solar_generating_times,
         hour |-> frame[i].time \div 60,
         minute |-> frame[i].time % 60,
         is_free_window |-> FALSE]]

\* Lines 124-174: the Dataset built from a file's rows, or the ValueError
\* raised when the file has no non-zero solar export.
ProcessRows(df) ==
    IF Len(NonZeroExports(df)) = 0
    THEN [raised |-> ValueError]
    ELSE LET solar_start == SolarStart(df)
             df_filtered == FilterFromSolarStart(df, solar_start)
             consumption == SelectSeq(df_filtered, IsConsumptionRow)
             exports == SelectSeq(df_filtered, IsSolarExport)
             solar_generating_times == SolarGeneratingTimes(exports)
         IN  [raised |-> None,
              consumption |-> Annotate(consumption, solar_generating_times),
              exports |-> Annotate(exports, solar_generating_times),
              solar_start |-> solar_start,
              data_end |-> DataEnd(df),
              month_column |-> FALSE]

(***************************************************************************)
(* filter_data_by_date_range and the free window of get_data               *)
(***************************************************************************)
filter_data_by_date_range(frame, start_date, end_date) ==
    LET InRange(r) == r.date >= start_date /\ r.date <= end_date
    IN  SelectSeq(frame, InRange)

\* A slip: the window end included.
InFreeWindowClosed(minutes, start_minutes, end_minutes) ==
    minutes >= start_minutes /\ minutes <= end_minutes

\* (minutes >= start_minutes) & (minutes < end_minutes)
InFreeWindow(minutes, start_minutes, end_minutes) ==
    minutes >= start_minutes /\ minutes < end_minutes

\* Lines 625-648: the is_free_window column of a filtered frame.  A time
\* that does not parse raises ValueError inside the try, and the except
\* clause clears the column.
ApplyFreeWindow(frame, enabled, start_text, end_text) ==
    LET start == ParseWindowTime(start_text)
        end == ParseWindowTime(end_text)
        applies == enabled /\ start.ok /\ end.ok
    IN  [i \in DOMAIN frame |->
            [frame[i] EXCEPT !.is_free_window =
                applies /\ InFreeWindow(frame[i].hour * 60 + frame[i].minute,
                                        start.minutes, end.minutes)]]

(***************************************************************************)
(* The response of /api/data: the aggregates get_data builds.              *)
(***************************************************************************)
\* The length of the rolling window of the trends
RollingWindow == 7

\* The label "YYYY-MM" of a date's month, as the number YYYYMM
MonthLabel(date) == YearOf(date) * 100 + MonthOf(date)

MonthlySum(readings, label) ==
    LET InMonth(r) == MonthLabel(r.date) = label
    IN  SumQty(SelectSeq(readings, InMonth))

\* series.rolling(7).mean().dropna(), rounded to 2 decimals, by position
Rolling(values) ==
    [k \in 1..(IF Len(values) >= RollingWindow
               THEN Len(values) - RollingWindow + 1 ELSE 0) |->
        RoundDiv(SumSeq(SubSeq(values, k, k + RollingWindow - 1)),
                 RollingWindow * 10)]

\* groupby('hour')['ReadConsumption'].mean() read at one hour with
\* get(h, 0), rounded to 4 decimals (in 0.0001 kWh)
HourlyMean(readings, h) ==
    LET AtHour(r) == r.hour = h
        rows == SelectSeq(readings, AtHour)
    IN  IF rows = <<>> THEN 0 ELSE RoundDiv(SumQty(rows) * 10, Len(rows))

\* Lines 663-715: the daily, hourly, monthly and trend parts.  The daily
\* index is that of the sunlight series.
ChartData(consumption, exports) ==
    LET sunlight == SelectSeq(consumption, IsSunlight)
        night == SelectSeq(consumption, IsNight)
        dates == SortedSeq(DatesOf(sunlight))
        daily_sunlight == [i \in DOMAIN dates |-> DailySum(sunlight, dates[i])]
        daily_night == [i \in DOMAIN dates |-> DailySum(night, dates[i])]
        daily_export == [i \in DOMAIN dates |-> DailySum(exports, dates[i])]
        all_months ==
            SortedSeq({MonthLabel(d) :
                         d \in DatesOf(sunlight) \cup DatesOf(night)
                               \cup DatesOf(exports)})
    IN  [daily |->
            [dates |-> dates,
             sunlight |-> [i \in DOMAIN dates |-> Round2(daily_sunlight[i])],
             night |-> [i \in DOMAIN dates |-> Round2(daily_night[i])],
             export |-> [i \in DOMAIN dates |-> Round2(daily_export[i])]],
         hourly |->
            [consumption |-> [h \in 0..23 |-> HourlyMean(consumption, h)],
             export |-> [h \in 0..23 |-> HourlyMean(exports, h)]],
         monthly |->
            [months |-> all_months,
             sunlight |-> [i \in DOMAIN all_months |->
                             Round2(MonthlySum(sunlight, all_months[i]))],
             night |-> [i \in DOMAIN all_months |->
                          Round2(MonthlySum(night, all_months[i]))],
             export |-> [i \in DOMAIN all_months |->
                           Round2(MonthlySum(exports, all_months[i]))]],
         trends |->
            [dates |-> SubSeq(dates, RollingWindow, Len(dates)),
             sunlight |-> Rolling(daily_sunlight),
             night |-> Rolling(daily_night),
             export |-> Rolling(daily_export)]]

(***************************************************************************)
(* postcodes.py: lookup_postcode                                           *)
(***************************************************************************)
RECURSIVE ZFill(_, _)
\* str.zfill(width) of an unsigned string
ZFill(cs, width) == IF Len(cs) >= width THEN cs ELSE ZFill(<<"0">> \o cs, width)

\* MAJOR_CITIES['melbourne']
Melbourne ==
    [postcode |-> <<"3", "0", "0", "0">>, locality |-> "Melbourne", state |-> "VIC"]

\* The primary locality of each postcode of the postcode table.
PostcodeTable ==
    [key \in {<<"0", "8", "0", "0">>} |->
        [postcode |-> key, locality |-> "Darwin", state |-> "NT"]]

\* lookup_postcode(postcode): the primary Location in a one-element
\* sequence, or the empty sequence for None.
lookup_postcode(postcode) ==
    LET key == ZFill(Strip(postcode), 4)
    IN  IF key \in DOMAIN PostcodeTable THEN <<PostcodeTable[key]>> ELSE <<>>

(***************************************************************************)
(* postcodes.py: PostcodeDatabase.search.  A row of the postcode file is   *)
(* [postcode, locality], both character sequences; two rows with the same  *)
(* fields are equal Locations (the dataclass compares by field).           *)
(***************************************************************************)
Upper ==
    <<"A", "B", "C", "D", "E", "F", "G", "H", "I", "J", "K", "L", "M",
      "N", "O", "P", "Q", "R", "S", "T", "U", "V", "W", "X", "Y", "Z">>
Lower ==
    <<"a", "b", "c", "d", "e", "f", "g", "h", "i", "j", "k", "l", "m",
      "n", "o", "p", "q", "r", "s", "t", "u", "v", "w", "x", "y", "z">>

\* str.lower()
ToLower(cs) ==
    [i \in DOMAIN cs |->
        IF \E k \in DOMAIN Upper : Upper[k] = cs[i]
        THEN Lower[CHOOSE k \in DOMAIN Upper : Upper[k] = cs[i]]
        ELSE cs[i]]

\* str.isdigit(): at least one character, and digits only
IsDigits(cs) == cs # <<>> /\ \A i \in DOMAIN cs : IsDigit(cs[i])

\* needle in haystack
Contains(haystack, needle) ==
    \E i \in 0..(Len(haystack) - Len(needle)) :
        SubSeq(haystack, i + 1, i + Len(needle)) = needle

\* x in list
InList(x, list) == \E i \in DOMAIN list : list[i] = x

\* self._locations[postcode]: the rows of a postcode, in file order
LocationsOf(db, postcode) ==
    LET Has(row) == row.postcode = postcode IN SelectSeq(db, Has)

RECURSIVE PostcodeOrder(_)
\* The keys of self._locations in insertion order: the postcodes by first
\* appearance in the file.
PostcodeOrder(db) ==
    IF db = <<>> THEN <<>>
    ELSE LET first == PostcodeOrder(SubSeq(db, 1, Len(db) - 1))
             postcode == db[Len(db)].postcode
         IN  IF InList(postcode, first) THEN first ELSE Append(first, postcode)

RECURSIVE Flatten(_, _)
\* for postcode, locations in self._locations.items(): for loc in locations
Flatten(db, postcodes) ==
    IF postcodes = <<>> THEN <<>>
    ELSE LocationsOf(db, Head(postcodes)) \o Flatten(db, Tail(postcodes))

\* results[:limit]
Take(list, limit) ==
    IF limit >= 0
    THEN SubSeq(list, 1, Min(limit, Len(list)))
    ELSE SubSeq(list, 1, IF Len(list) + limit > 0 THEN Len(list) + limit ELSE 0)

RECURSIVE ScanLocalities(_, _, _, _)
\* The loop over the localities (lines 149-157), with its early return.
ScanLocalities(results, rest, query, limit) ==
    IF rest = <<>> THEN Take(results, limit)
    ELSE IF Contains(ToLower(Head(rest).locality), query) /\ ~InList(Head(rest), results)
    THEN IF Len(results) + 1 >= limit
         THEN Append(results, Head(rest))
         ELSE ScanLocalities(Append(results, Head(rest)), Tail(rest), query, limit)
    ELSE ScanLocalities(results, Tail(rest), query, limit)

\* PostcodeDatabase.search(query, limit)
search(db, query, limit) ==
    LET q == ToLower(Strip(query))
        exact == IF IsDigits(q) THEN LocationsOf(db, ZFill(q, 4)) ELSE <<>>
    IN  ScanLocalities(exact, Flatten(db, PostcodeOrder(db)), q, limit)

(***************************************************************************)
(* The web application: session, cache and the request handlers.           *)
(***************************************************************************)
NoPath == <<>>
UploadPath == <<"energy.csv">>

\* dict[key] = value
Put(dict, key, value) ==
    [k \in DOMAIN dict \cup {key} |-> IF k = key THEN value ELSE dict[k]]

\* filename.rsplit('.', 1)[1]
Extension(filename) ==
    LET k == CHOOSE i \in DOMAIN filename :
                 filename[i] = "." /\ \A j \in (i + 1)..Len(filename) : filename[j] # "."
    IN  SubSeq(filename, k + 1, Len(filename))

ALLOWED_EXTENSIONS == {<<"c", "s", "v">>}

allowed_file(filename) ==
    /\ \E i \in DOMAIN filename : filename[i] = "."
    /\ ToLower(Extension(filename)) \in ALLOWED_EXTENSIONS

\* get_data_file(): the session's file when it exists, else the CLI file,
\* else NoPath for None.
get_data_file(c) ==
    IF "data_file" \in DOMAIN session[c] /\ session[c]["data_file"] \in DOMAIN disk
    THEN session[c]["data_file"]
    ELSE IF cli_data_file # NoPath THEN cli_data_file
    ELSE NoPath

\* get_location(): the session's location, else the CLI location, which
\* main() leaves at Melbourne when no --postcode is given.
get_location(c) ==
    IF "location" \in DOMAIN session[c] THEN session[c]["location"] ELSE Melbourne

\* cache_key = f"{filepath}_{location.postcode}"
CacheKey(filepath, postcode) == filepath \o <<"_">> \o postcode

\* A slip: the cache left as it is.
ClearNothing(dict) == dict

\* _data_cache.clear()
Clear(dict) == EmptyDict

\* A slip: the cache never consulted.
InCacheNever(cache_key) == FALSE

\* cache_key in _data_cache
InCache(cache_key) == cache_key \in DOMAIN cache

\* dict.get(key, 0)
Get0(dict, key) == IF key \in DOMAIN dict THEN dict[key] ELSE 0

\* A slip: the Dataset stored under its key before it is validated.
load_and_store_unvalidated(filepath, location) ==
    LET cache_key == CacheKey(filepath, location.postcode)
        result == ProcessRows(disk[filepath])
    IN  IF InCache(cache_key) /\ cache[cache_key].raised = None
        THEN [raised |-> None, data |-> cache[cache_key], cache |-> cache,
              ingested |-> ingested]
        ELSE [raised |-> result.raised, data |-> result,
              cache |-> Put(cache, cache_key, result),
              ingested |-> Put(ingested, cache_key, Get0(ingested, cache_key) + 1)]

\* load_and_process_data from the cache check on (lines 120-177): the
\* stored Dataset, or the result of the ingestion, stored when it raised
\* nothing.
LoadOrIngest(cache_key, result) ==
    IF InCache(cache_key)
    THEN [raised |-> None, data |-> cache[cache_key], cache |-> cache,
          ingested |-> ingested]
    ELSE IF result.raised # None
    THEN [raised |-> result.raised, data |-> result, cache |-> cache,
          ingested |-> ingested]
    ELSE [raised |-> None, data |-> result,
          cache |-> Put(cache, cache_key, result),
          ingested |-> Put(ingested, cache_key, Get0(ingested, cache_key) + 1)]

\* load_and_process_data(filepath, location): what it returns or raises,
\* _data_cache as it leaves it, and the count of the ingestions that ran to
\* the end.
load_and_process_data(filepath, location) ==
    LoadOrIngest(CacheKey(filepath, location.postcode), ProcessRows(disk[filepath]))

Error(status, message) == [status |-> status, error |-> message]

\* The file names and postcodes that requests carry.
UploadNames ==
    {<<>>, <<"d", ".", "C", "s", "v">>, <<"d", ".", "t", "x", "t">>, <<"c", "s", "v">>}
PostcodeInputs == {<<>>, <<" ">>, <<"8", "0", "0">>, <<"9", "9", "9", "9">>}

\* upload_file(): the file part may be missing; its name may be empty or
\* not allowed.
Upload(c) ==
    /\ resp = NoResponse
    /\ \E has_file \in BOOLEAN, filename \in UploadNames :
          IF ~has_file
          THEN /\ resp' = Error(400, "No file provided")
               /\ UNCHANGED <<disk, session, cache, ingested>>
          ELSE IF filename = <<>>
          THEN /\ resp' = Error(400, "No file selected")
               /\ UNCHANGED <<disk, session, cache, ingested>>
          ELSE IF ~allowed_file(filename)
          THEN /\ resp' = Error(400, "Only CSV files are allowed")
               /\ UNCHANGED <<disk, session, cache, ingested>>
          ELSE /\ disk' = Put(disk, UploadPath, user_file)
               /\ session' = [session EXCEPT ![c] = Put(@, "data_file", UploadPath)]
               /\ cache' = Clear(cache)
               /\ ingested' = EmptyDict
               /\ resp' = [status |-> 200, success |-> TRUE, filename |-> filename]
    /\ UNCHANGED <<user_file, cli_data_file, work>>
    /\ UNCHANGED <<datesVars, analysisVars, sizingVars, searchVars>>

\* set_location()
SetLocation(c) ==
    /\ resp = NoResponse
    /\ \E text \in PostcodeInputs :
          LET postcode == Strip(text)
              location == lookup_postcode(postcode)
          IN  IF postcode = <<>>
              THEN /\ resp' = Error(400, "No postcode provided")
                   /\ UNCHANGED <<session, cache, ingested>>
              ELSE IF location = <<>>
              THEN /\ resp' = Error(404, "Postcode not found")
                   /\ UNCHANGED <<session, cache, ingested>>
              ELSE /\ session' = [session EXCEPT ![c] = Put(@, "location", location[1])]
                   /\ cache' = Clear(cache)
                   /\ ingested' = EmptyDict
                   /\ resp' = [status |-> 200, success |-> TRUE, location |-> location[1]]
    /\ UNCHANGED <<disk, user_file, cli_data_file, work>>
    /\ UNCHANGED <<datesVars, analysisVars, sizingVars, searchVars>>

\* A date query parameter: absent (or empty), an ISO date, or text that
\* date.fromisoformat rejects.
Absent == [kind |-> "absent", date |-> 0]
IsoDate(d) == [kind |-> "date", date |-> d]
Malformed == [kind |-> "malformed", date |-> 0]

\* request.args.get('free_window_enabled', 'true').lower() == 'true'
FreeWindowEnabled(arg) ==
    ToLower(IF arg = <<>> THEN <<"t", "r", "u", "e">> ELSE arg) = <<"t", "r", "u", "e">>

\* A slip: the battery step given the frames of the selected range.
BatteryInputFiltered(full, filtered) == filtered

\* The frame get_data hands to calculate_battery_recommendation: the one of
\* the full Dataset, data['consumption'] or data['exports'].
BatteryInput(full, filtered) == full

\* get_data from the summary on (lines 650-732): the response, the
\* handler's copies of the frames, and whether the battery step, which adds
\* a month column to the cached frames, was reached.
DataBody(data, location, req, suggested, both, analysis_start, analysis_end, enabled, consumption, exports, charts) ==
    IF suggested.raised # None
    THEN [resp |-> Error(500, "day is out of range for month"),
          work |-> EmptyDict, battery_ran |-> FALSE]
    ELSE IF both /\ "malformed" \in {req.start_date.kind, req.end_date.kind}
    THEN [resp |-> Error(500, "Invalid isoformat string"),
          work |-> EmptyDict, battery_ran |-> FALSE]
    ELSE [resp |->
            [status |-> 200,
             stats |-> get_summary_stats(consumption, exports),
             free_window_enabled |-> enabled,
             free_window_start |-> req.free_window_start,
             free_window_end |-> req.free_window_end,
             solar_start |-> data.solar_start,
             data_end |-> data.data_end,
             analysis_start |-> analysis_start,
             analysis_end |-> analysis_end,
             suggested_start |-> suggested.suggested_start,
             suggested_end |-> suggested.suggested_end,
             location |-> location,
             daily |-> charts.daily,
             hourly |-> charts.hourly,
             monthly |-> charts.monthly,
             trends |-> charts.trends,
             battery |-> calculate_battery_recommendation(
                            BatteryInput(data.consumption, consumption),
                            BatteryInput(data.exports, exports))],
          work |-> [consumption |-> consumption, exports |-> exports],
          battery_ran |-> TRUE]

\* get_data, lines 620-648: the frames of the selected range with the
\* free-window flags of the request.
DataFrames(data, location, req, suggested, both, analysis_start, analysis_end, enabled, consumption, exports) ==
    DataBody(data, location, req, suggested, both, analysis_start, analysis_end,
             enabled,
             ApplyFreeWindow(consumption, enabled,
                             req.free_window_start, req.free_window_end),
             ApplyFreeWindow(exports, enabled,
                             req.free_window_start, req.free_window_end),
             ChartData(ApplyFreeWindow(consumption, enabled,
                                       req.free_window_start, req.free_window_end),
                       ApplyFreeWindow(exports, enabled,
                                       req.free_window_start, req.free_window_end)))

\* get_data, lines 611-618: the dates of the request when both are given,
\* else the suggested ones.
DataRange(data, location, req, suggested, both, analysis_start, analysis_end) ==
    DataFrames(data, location, req, suggested, both, analysis_start, analysis_end,
               FreeWindowEnabled(req.free_window_enabled),
               filter_data_by_date_range(data.consumption, analysis_start, analysis_end),
               filter_data_by_date_range(data.exports, analysis_start, analysis_end))

DataSuggested(data, location, req, suggested, both) ==
    DataRange(data, location, req, suggested, both,
              IF both THEN req.start_date.date ELSE suggested.suggested_start,
              IF both THEN req.end_date.date ELSE suggested.suggested_end)

\* The body of get_data once the Dataset is loaded (lines 601-732).
DataResponse(data, location, req) ==
    DataSuggested(data, location, req,
                  suggest_date_range(data.solar_start, data.data_end),
                  req.start_date.kind # "absent" /\ req.end_date.kind # "absent")

\* A slip: the night selection of the battery step kept in the cached frame.
WithNightFrame(dict, key) ==
    [dict EXCEPT ![key] = [@ EXCEPT !.month_column = TRUE,
                                    !.consumption = SelectSeq(@, IsNight)]]

\* calculate_battery_recommendation assigns a month column to the frames it
\* is given, which are the cached ones.
WithMonthColumn(dict, key) ==
    [dict EXCEPT ![key] = [@ EXCEPT !.month_column = TRUE]]

\* get_data() after the Dataset is loaded: the response, and the cache as
\* load_and_process_data and the battery step leave it.
Answer(c, req, cache_key, loaded, out) ==
    IF loaded.raised # None
    THEN /\ resp' = Error(400, "No solar exports found in data!")
         /\ cache' = loaded.cache
         /\ ingested' = loaded.ingested
         /\ UNCHANGED work
    ELSE /\ resp' = out.resp
         /\ work' = IF out.battery_ran
                    THEN [client |-> c, args |-> req,
                          hit |-> InCache(cache_key),
                          consumption |-> out.work.consumption,
                          exports |-> out.work.exports]
                    ELSE out.work
         /\ ingested' = loaded.ingested
         /\ cache' = IF out.battery_ran
                     THEN WithMonthColumn(loaded.cache, cache_key)
                     ELSE loaded.cache

Load(c, req, data_file, location, loaded) ==
    Answer(c, req, CacheKey(data_file, location.postcode), loaded,
           DataResponse(loaded.data, location, req))

\* get_data(), for one set of query parameters
GetDataRequest(c, req) ==
    IF get_data_file(c) = NoPath
    THEN /\ resp' = Error(400, "No data file loaded. Please upload a CSV file.")
         /\ UNCHANGED <<cache, ingested, work>>
    ELSE Load(c, req, get_data_file(c), get_location(c),
              load_and_process_data(get_data_file(c), get_location(c)))

(***************************************************************************)
(* Bounded inputs: a frame is a sequence of at most MaxReadings rows drawn *)
(* from a finite universe.  The sums, groupings and selections above do    *)
(* not depend on the order of the rows, so the frames are enumerated up to *)
(* order (as non-decreasing index sequences into the universe).            *)
(***************************************************************************)
MaxReadings == 3

RECURSIVE SetToSeq(_)
SetToSeq(S) ==
    IF S = {} THEN <<>>
    ELSE LET x == CHOOSE y \in S : TRUE IN <<x>> \o SetToSeq(S \ {x})

IndexSeqs(n, max) ==
    {s \in UNION {[1..k -> 1..n] : k \in 0..max} :
        \A i \in 1..(Len(s) - 1) : s[i] <= s[i + 1]}

Pick(universe, s) == [i \in DOMAIN s |-> universe[s[i]]]

(***************************************************************************)
(* SpecStats: get_summary_stats applied to annotated frames.               *)
(***************************************************************************)
StatsDates == {ToOrdinal(2024, 3, 1), ToOrdinal(2024, 3, 2)}
StatsQty == {0, 4, 14}

StatsUniverse ==
    SetToSeq(
        [Register : {1}, date : StatsDates, qty : StatsQty,
         is_sunlight : BOOLEAN, is_free_window : BOOLEAN]
        \cup
        {[Register |-> 2, date |-> d, qty |-> q,
          is_sunlight |-> q > GenerationThreshold, is_free_window |-> f] :
            d \in StatsDates, q \in {0, 4}, f \in {FALSE}})

InitStats ==
    /\ \E s \in IndexSeqs(Len(StatsUniverse), MaxReadings) :
          LET rows == Pick(StatsUniverse, s)
          IN  /\ in_consumption = SelectSeq(rows, IsConsumptionRow)
              /\ in_exports = SelectSeq(rows, IsExportRow)
    /\ stats_result = Pending
    /\ bat_result = Pending
    /\ DatesIdle /\ SizingIdle /\ AppIdle /\ SearchIdle

GetSummaryStats ==
    /\ stats_result = Pending
    /\ stats_result' = get_summary_stats(in_consumption, in_exports)
    /\ UNCHANGED <<in_consumption, in_exports, bat_result>>
    /\ UNCHANGED <<datesVars, sizingVars, appVars, searchVars>>

NextStats == GetSummaryStats

SpecStats == InitStats /\ [][NextStats]_vars

(***************************************************************************)
(* SpecBattery: calculate_battery_recommendation applied to annotated      *)
(* frames with days in summer, in winter and in neither.                   *)
(***************************************************************************)
BatteryDates ==
    {ToOrdinal(2024, 1, 15), ToOrdinal(2024, 4, 15), ToOrdinal(2024, 7, 15)}
BatteryQty == {0, 8000, 10000}

BatteryUniverse ==
    SetToSeq(
        [Register : {1}, date : BatteryDates, qty : BatteryQty,
         is_sunlight : BOOLEAN, is_free_window : {FALSE}]
        \cup
        {[Register |-> 2, date |-> d, qty |-> q,
          is_sunlight |-> q > GenerationThreshold, is_free_window |-> FALSE] :
            d \in BatteryDates, q \in BatteryQty})

InitBattery ==
    /\ \E s \in IndexSeqs(Len(BatteryUniverse), MaxReadings) :
          LET rows == Pick(BatteryUniverse, s)
          IN  /\ in_consumption = SelectSeq(rows, IsConsumptionRow)
              /\ in_exports = SelectSeq(rows, IsExportRow)
    /\ stats_result = Pending
    /\ bat_result = Pending
    /\ DatesIdle /\ SizingIdle /\ AppIdle /\ SearchIdle

CalculateBatteryRecommendation ==
    /\ bat_result = Pending
    /\ bat_result' = calculate_battery_recommendation(in_consumption, in_exports)
    /\ UNCHANGED <<in_consumption, in_exports, stats_result>>
    /\ UNCHANGED <<datesVars, sizingVars, appVars, searchVars>>

NextBattery == CalculateBatteryRecommendation

SpecBattery == InitBattery /\ [][NextBattery]_vars

(***************************************************************************)
(* SpecSeasons: calculate_battery_recommendation applied to frames with    *)
(* two summer days and a winter day, whose night sums put the summer       *)
(* percentiles on either side of a usable capacity of the catalog.         *)
(***************************************************************************)
SeasonDates ==
    {ToOrdinal(2024, 1, 15), ToOrdinal(2024, 1, 16), ToOrdinal(2024, 7, 15)}
SeasonQty == {0, 4400, 8000}

SeasonUniverse ==
    SetToSeq(
        [Register : {1}, date : SeasonDates, qty : SeasonQty,
         is_sunlight : BOOLEAN, is_free_window : {FALSE}]
        \cup
        {[Register |-> 2, date |-> d, qty |-> 4400,
          is_sunlight |-> TRUE, is_free_window |-> FALSE] : d \in SeasonDates})

InitSeasons ==
    /\ \E s \in IndexSeqs(Len(SeasonUniverse), MaxReadings) :
          LET rows == Pick(SeasonUniverse, s)
          IN  /\ in_consumption = SelectSeq(rows, IsConsumptionRow)
              /\ in_exports = SelectSeq(rows, IsExportRow)
    /\ stats_result = Pending
    /\ bat_result = Pending
    /\ DatesIdle /\ SizingIdle /\ AppIdle /\ SearchIdle

NextSeasons == CalculateBatteryRecommendation

SpecSeasons == InitSeasons /\ [][NextSeasons]_vars

(***************************************************************************)
(* SpecSizing: find_battery_for_usage applied to target needs around every *)
(* usable capacity of the catalog and beyond the largest.                  *)
(***************************************************************************)
MaxTarget == 90000
TargetStep == 500

Targets ==
    {Num(k * TargetStep) : k \in 0..(MaxTarget \div TargetStep)}
    \cup {Num(UsableCapacity(battery_sizes[i]) + e) :
            i \in DOMAIN battery_sizes, e \in {-1, 0, 1}}
    \cup {Rat(UsableCapacity(battery_sizes[i]) * 100 + e, 100) :
            i \in DOMAIN battery_sizes, e \in {-1, 1}}
    \cup {NaN}

InitSizing ==
    /\ fb_target \in Targets
    /\ fb_result = 0
    /\ DatesIdle /\ AnalysisIdle /\ AppIdle /\ SearchIdle

FindBatteryForUsage ==
    /\ fb_result = 0
    /\ fb_result' = find_battery_for_usage(fb_target)
    /\ UNCHANGED fb_target
    /\ UNCHANGED <<datesVars, analysisVars, appVars, searchVars>>

NextSizing == FindBatteryForUsage

SpecSizing == InitSizing /\ [][NextSizing]_vars

(***************************************************************************)
(* SpecDates: suggest_date_range applied to every pair of dates of a       *)
(* window of calendar days that holds a leap year.                         *)
(***************************************************************************)
FirstDay == ToOrdinal(2023, 1, 1)
DayWindow == 1461
Spans == {0, 1, 200, 364, 365, 366, 367, 400, 730, 731, 800}

InitDates ==
    /\ sd_solar_start \in FirstDay .. (FirstDay + DayWindow - 1)
    /\ \E span \in Spans : sd_data_end = sd_solar_start + span
    /\ sd_result = Pending
    /\ AnalysisIdle /\ SizingIdle /\ AppIdle /\ SearchIdle

SuggestDateRange ==
    /\ sd_result = Pending
    /\ sd_result' = suggest_date_range(sd_solar_start, sd_data_end)
    /\ UNCHANGED <<sd_solar_start, sd_data_end>>
    /\ UNCHANGED <<analysisVars, sizingVars, appVars, searchVars>>

NextDates == SuggestDateRange

SpecDates == InitDates /\ [][NextDates]_vars

(***************************************************************************)
(* Spec: the application serving one client who holds one CSV file.        *)
(***************************************************************************)
MaxRows == 2

Clients == {"c1"}

FileDates == {ToOrdinal(2023, 3, 1), ToOrdinal(2023, 3, 1) + 400}
FileTimes == {11 * 60, 14 * 60}

\* Consumption rows, flagged exports (zero and not), unflagged exports.
RowUniverse ==
    SetToSeq(
        {[date |-> d, time |-> t, Register |-> k[1], SolarFlag |-> k[2], qty |-> k[3]] :
            d \in FileDates, t \in FileTimes,
            k \in {<<1, FALSE, 4>>, <<2, TRUE, 4>>, <<2, TRUE, 0>>, <<2, FALSE, 4>>}})

Files == {Pick(RowUniverse, s) : s \in IndexSeqs(Len(RowUniverse), MaxRows)}

DefaultStart == <<"1", "1", ":", "0", "0">>
DefaultEnd == <<"1", "4", ":", "0", "0">>

DateArgs ==
    {<<Absent, Absent>>, <<Malformed, Malformed>>}
    \cup {<<IsoDate(a), IsoDate(b)>> : a \in FileDates, b \in FileDates}

WindowArgs ==
    {<<<<>>, DefaultStart, DefaultEnd>>,
     <<<<"f", "a", "l", "s", "e">>, DefaultStart, DefaultEnd>>,
     <<<<"T", "r", "u", "e">>, DefaultEnd, DefaultStart>>,
     <<<<>>, DefaultStart, <<"1", "4", ":", "0", "1">>>>,
     <<<<>>, <<"1", "1">>, DefaultEnd>>}

Requests ==
    {[start_date |-> d[1], end_date |-> d[2], free_window_enabled |-> w[1],
      free_window_start |-> w[2], free_window_end |-> w[3]] :
        d \in DateArgs, w \in WindowArgs}

\* The server started without --file: the client holds a CSV file that is
\* not yet uploaded.
Init ==
    /\ user_file \in Files
    /\ cli_data_file = NoPath
    /\ disk = EmptyDict
    /\ session = [c \in Clients |-> EmptyDict]
    /\ cache = EmptyDict
    /\ ingested = EmptyDict
    /\ resp = NoResponse
    /\ work = EmptyDict
    /\ DatesIdle /\ AnalysisIdle /\ SizingIdle /\ SearchIdle

\* get_data() answering the request of client c with query parameters req
GetDataWith(c, req) ==
    /\ resp = NoResponse
    /\ GetDataRequest(c, req)
    /\ UNCHANGED <<disk, user_file, cli_data_file, session>>
    /\ UNCHANGED <<datesVars, analysisVars, sizingVars, searchVars>>

GetData(c) == \E req \in Requests : GetDataWith(c, req)

\* The response is sent; the handler's locals are gone.
Respond ==
    /\ resp # NoResponse
    /\ resp' = NoResponse
    /\ work' = EmptyDict
    /\ UNCHANGED <<disk, user_file, cli_data_file, session, cache, ingested>>
    /\ UNCHANGED <<datesVars, analysisVars, sizingVars, searchVars>>

Next ==
    \/ \E c \in Clients : Upload(c)
    \/ \E c \in Clients : SetLocation(c)
    \/ \E c \in Clients : GetData(c)
    \/ Respond

Spec == Init /\ [][Next]_vars

(***************************************************************************)
(* SpecSearch: PostcodeDatabase.search applied to postcode files of at     *)
(* most MaxDbRows rows, duplicates and localities with digits included.    *)
(***************************************************************************)
MaxDbRows == 3
MaxLimit == 3

DbRowUniverse ==
    [postcode : {<<"0", "8", "0", "0">>, <<"0", "8", "1", "0">>},
     locality : {<<"D", "a">>, <<"a", "b">>, <<"A", "8", "0", "0">>}]

Queries ==
    {<<>>, <<"a">>, <<" ", "D", "A">>, <<"b">>, <<"8", "0", "0">>,
     <<"0", "8", "0", "0">>, <<"8", "1", "0", " ">>, <<"9">>}

InitSearch ==
    /\ sr_db \in UNION {[1..n -> DbRowUniverse] : n \in 0..MaxDbRows}
    /\ sr_query \in Queries
    /\ sr_limit \in 0..MaxLimit
    /\ sr_result = Pending
    /\ DatesIdle /\ AnalysisIdle /\ SizingIdle /\ AppIdle

Search ==
    /\ sr_result = Pending
    /\ sr_result' = [raised |-> None, locations |-> search(sr_db, sr_query, sr_limit)]
    /\ UNCHANGED <<sr_db, sr_query, sr_limit>>
    /\ UNCHANGED <<datesVars, analysisVars, sizingVars, appVars>>

NextSearch == Search

SpecSearch == InitSearch /\ [][NextSearch]_vars

(***************************************************************************)
(* SpecWindow: one client asking /api/data for the suggested range with    *)
(* free-window times that int() and the unpacking accept or reject.        *)
(***************************************************************************)
WindowTexts ==
    {DefaultStart, DefaultEnd,
     <<>>,
     <<"1", "1">>,
     <<"1", "1", ":">>,
     <<"1", "1", ":", "0", "0", ":", "0", "0">>,
     <<"a", "m", ":", "0", "0">>,
     <<"1", "1", ".", "0", "0">>,
     <<" ", "1", "1", ":", "0", "_", "0">>}

WindowRequests ==
    {[start_date |-> Absent, end_date |-> Absent, free_window_enabled |-> e,
      free_window_start |-> w[1], free_window_end |-> w[2]] :
        e \in {<<>>, <<"f", "a", "l", "s", "e">>},
        w \in {<<t, DefaultEnd>> : t \in WindowTexts}
                 \cup {<<DefaultStart, t>> : t \in WindowTexts}}

NextWindow ==
    \/ \E c \in Clients : Upload(c)
    \/ \E c \in Clients : \E req \in WindowRequests : GetDataWith(c, req)
    \/ Respond

SpecWindow == Init /\ [][NextWindow]_vars

(***************************************************************************)
(* SpecCache: the application serving two clients, who upload the same     *)
(* one-row file and choose their locations independently, so that          *)
(* _data_cache can hold the Datasets of two (file path, postcode) pairs.   *)
(***************************************************************************)
CacheClients == {"c1", "c2"}

CacheFiles == {<<>>} \cup {<<RowUniverse[i]>> : i \in DOMAIN RowUniverse}

InitCache ==
    /\ user_file \in CacheFiles
    /\ cli_data_file = NoPath
    /\ disk = EmptyDict
    /\ session = [c \in CacheClients |-> EmptyDict]
    /\ cache = EmptyDict
    /\ ingested = EmptyDict
    /\ resp = NoResponse
    /\ work = EmptyDict
    /\ DatesIdle /\ AnalysisIdle /\ SizingIdle /\ SearchIdle

NextCache ==
    \/ \E c \in CacheClients : Upload(c)
    \/ \E c \in CacheClients : SetLocation(c)
    \/ \E c \in CacheClients : GetData(c)
    \/ Respond

SpecCache == InitCache /\ [][NextCache]_vars

(***************************************************************************)
(* The claims.                                                             *)
(***************************************************************************)
RECURSIVE C_SumAt(_, _)
\* The sum of the quantities of a frame at a set of its positions.
C_SumAt(frame, positions) ==
    IF positions = {} THEN 0
    ELSE LET i == CHOOSE j \in positions : TRUE
         IN  frame[i].qty + C_SumAt(frame, positions \ {i})

C_Abs(x) == IF x < 0 THEN 0 - x ELSE x

\* C1 as stated: the returned sunlight_consumption plus the returned
\* night_consumption equals the returned total_consumption exactly.
C1_ReturnedSumsExact ==
    stats_result # Pending =>
        stats_result.sunlight_consumption + stats_result.night_consumption
            = stats_result.total_consumption

\* C1 as amended: the three returned values are each rounded to 2 decimals,
\* so sunlight plus night differs from the total by at most 0.01 kWh, and
\* equals it exactly when the sunlight and night sums are themselves whole
\* multiples of 0.01 kWh; the returned total is the rounded sum of all
\* consumption readings.
C1_SumsWithinRounding ==
    stats_result # Pending =>
        LET sun == C_SumAt(in_consumption,
                           {i \in DOMAIN in_consumption : in_consumption[i].is_sunlight})
            night == C_SumAt(in_consumption,
                             {i \in DOMAIN in_consumption : ~in_consumption[i].is_sunlight})
            returned == stats_result.sunlight_consumption + stats_result.night_consumption
        IN  /\ C_Abs(returned - stats_result.total_consumption) <= 1
            /\ (sun % 10 = 0 /\ night % 10 = 0)
                   => returned = stats_result.total_consumption
            /\ C_Abs(10 * stats_result.total_consumption - (sun + night)) <= 5

\* C1 witness: statistics returned for readings of both classes, whose
\* rounded parts do not add up to the rounded total.
C1_Witness ==
    /\ stats_result # Pending
    /\ \E i, j \in DOMAIN in_consumption :
          in_consumption[i].is_sunlight /\ ~in_consumption[j].is_sunlight
    /\ stats_result.sunlight_consumption + stats_result.night_consumption
           # stats_result.total_consumption

\* The postcodes a location can carry.
C_Postcodes ==
    {Melbourne.postcode} \cup {PostcodeTable[k].postcode : k \in DOMAIN PostcodeTable}

\* The file path of a cache key.
C_PathOf(key) ==
    CHOOSE path \in DOMAIN disk : \E postcode \in C_Postcodes : key = CacheKey(path, postcode)

\* The positions of a file's rows with Register=2, SolarFlag=true, quantity > 0.
C_ValidExports(file) ==
    {i \in DOMAIN file :
        file[i].Register = 2 /\ file[i].SolarFlag /\ file[i].qty > 0}

\* C2: every Dataset that load_and_process_data stored has solar_start equal
\* to the minimum date over the input's rows with Register=2, SolarFlag=true
\* and quantity > 0, data_end equal to the maximum date over all rows, and
\* every kept consumption and export reading dated within
\* [solar_start, data_end].
C2_DatasetBounds ==
    \A key \in DOMAIN cache :
        LET file == disk[C_PathOf(key)]
            data == cache[key]
        IN  /\ \E i \in C_ValidExports(file) : file[i].date = data.solar_start
            /\ \A i \in C_ValidExports(file) : data.solar_start <= file[i].date
            /\ \E i \in DOMAIN file : file[i].date = data.data_end
            /\ \A i \in DOMAIN file : file[i].date <= data.data_end
            /\ \A i \in DOMAIN data.consumption :
                  /\ data.solar_start <= data.consumption[i].date
                  /\ data.consumption[i].date <= data.data_end
            /\ \A i \in DOMAIN data.exports :
                  /\ data.solar_start <= data.exports[i].date
                  /\ data.exports[i].date <= data.data_end

\* C2 witness: a Dataset stored for a file that has a row dated before the
\* first non-zero solar export, which is a flagged export of quantity zero.
C2_Witness ==
    \E key \in DOMAIN cache :
        \E i \in DOMAIN disk[C_PathOf(key)] :
            /\ disk[C_PathOf(key)][i].date < cache[key].solar_start
            /\ disk[C_PathOf(key)][i].Register = 2
            /\ disk[C_PathOf(key)][i].SolarFlag
            /\ Len(cache[key].exports) = 1

\* C3 as stated: in a successful /api/data response no date (daily and trend
\* labels, monthly labels, analysis_start, suggested_start) precedes
\* solar_start.
C3_NoDateBeforeSolarStart ==
    (resp.status = 200 /\ "stats" \in DOMAIN resp) =>
        /\ \A i \in DOMAIN resp.daily.dates : resp.daily.dates[i] >= resp.solar_start
        /\ \A i \in DOMAIN resp.trends.dates : resp.trends.dates[i] >= resp.solar_start
        /\ \A i \in DOMAIN resp.monthly.months :
              resp.monthly.months[i]
                  >= YearOf(resp.solar_start) * 100 + MonthOf(resp.solar_start)
        /\ resp.analysis_start >= resp.solar_start
        /\ resp.suggested_start >= resp.solar_start

\* The responses that get_data produces once a data file is known.
C_IsDataResponse ==
    \/ resp.status = 200 /\ "stats" \in DOMAIN resp
    \/ resp.status = 500
    \/ resp = Error(400, "No solar exports found in data!")

\* C4: with a data file in place, /api/data reports the ingestion's
\* validation error exactly when the file has no row with Register=2,
\* SolarFlag=true and quantity > 0; otherwise ingestion returned a Dataset,
\* which is then the cache's entry for the file and location.
C4_ValidationErrorIff ==
    \A c \in Clients :
        (C_IsDataResponse /\ get_data_file(c) # NoPath) =>
            LET file == disk[get_data_file(c)]
                key == CacheKey(get_data_file(c), get_location(c).postcode)
            IN  /\ (resp = Error(400, "No solar exports found in data!"))
                       <=> (C_ValidExports(file) = {})
                /\ (C_ValidExports(file) # {}) <=> (key \in DOMAIN cache)

\* C4 witness: the validation error for a file whose only flagged exports
\* have quantity zero.
C4_Witness ==
    /\ resp = Error(400, "No solar exports found in data!")
    /\ \E c \in Clients :
          \E i \in DOMAIN disk[get_data_file(c)] :
              /\ disk[get_data_file(c)][i].Register = 2
              /\ disk[get_data_file(c)][i].SolarFlag

\* The minutes since midnight of the well-formed window times requested.
C5_Minutes(text) ==
    CASE text = <<"1", "1", ":", "0", "0">> -> 660
      [] text = <<"1", "4", ":", "0", "0">> -> 840
      [] text = <<"1", "4", ":", "0", "1">> -> 841
      [] OTHER -> -1

C5_WellFormed ==
    /\ resp.status = 200 /\ "stats" \in DOMAIN resp
    /\ resp.free_window_enabled
    /\ C5_Minutes(resp.free_window_start) >= 0
    /\ C5_Minutes(resp.free_window_end) >= 0

\* C5: with the free window enabled and well-formed times, a consumption or
\* export reading is flagged is_free_window iff start <= m < end for its
\* minutes since midnight m, whatever its is_sunlight.
C5_HalfOpenWindow ==
    C5_WellFormed =>
        \A frame \in {work.consumption, work.exports} :
            \A i \in DOMAIN frame :
                frame[i].is_free_window
                    <=> /\ C5_Minutes(resp.free_window_start) <= frame[i].time
                        /\ frame[i].time < C5_Minutes(resp.free_window_end)

\* C5 witness: an export reading exactly at the window start that is
\* flagged, and a consumption reading exactly at the window end that is not.
C5_Witness ==
    /\ C5_WellFormed
    /\ \E i \in DOMAIN work.exports :
          /\ work.exports[i].time = C5_Minutes(resp.free_window_start)
          /\ work.exports[i].is_free_window
    /\ \E i \in DOMAIN work.consumption :
          /\ work.consumption[i].time = C5_Minutes(resp.free_window_end)
          /\ ~work.consumption[i].is_free_window

\* The catalog positions, in increasing order of capacity.
C_Steps == 1..(Len(battery_sizes) - 1)

\* C6: along the catalog in increasing capacity, the reported night coverage
\* percentage, total kWh offset and average daily offset never decrease.
C6_CoverageMonotone ==
    bat_result # Pending =>
        /\ \A i \in C_Steps : battery_sizes[i] < battery_sizes[i + 1]
        /\ \A i \in C_Steps :
              LET a == bat_result.battery_analysis[i]
                  b == bat_result.battery_analysis[i + 1]
              IN  /\ a.size_kwh = battery_sizes[i] /\ b.size_kwh = battery_sizes[i + 1]
                  /\ ~(b.night_coverage_pct < a.night_coverage_pct)
                  /\ ~(b.total_kwh_saved < a.total_kwh_saved)
                  /\ ~FloatLt(b.avg_daily_savings, a.avg_daily_savings)

\* C6 witness: an analysis whose coverage, total and average offset grow
\* with the capacity and then stay level.
C6_Witness ==
    /\ bat_result # Pending
    /\ \E i \in C_Steps :
          LET a == bat_result.battery_analysis[i]
              b == bat_result.battery_analysis[i + 1]
          IN  /\ a.night_coverage_pct < b.night_coverage_pct
              /\ a.total_kwh_saved < b.total_kwh_saved
              /\ FloatLt(a.avg_daily_savings, b.avg_daily_savings)
    /\ \E i \in C_Steps :
          /\ bat_result.battery_analysis[i].night_coverage_pct > 0
          /\ bat_result.battery_analysis[i].night_coverage_pct
                 = bat_result.battery_analysis[i + 1].night_coverage_pct

C_NightDates ==
    {in_consumption[i].date : i \in {j \in DOMAIN in_consumption :
                                        ~in_consumption[j].is_sunlight}}

C_NightOn(date) ==
    C_SumAt(in_consumption,
            {i \in DOMAIN in_consumption :
                in_consumption[i].date = date /\ ~in_consumption[i].is_sunlight})

C_ExportOn(date) ==
    C_SumAt(in_exports, {i \in DOMAIN in_exports : in_exports[i].date = date})

C_Min(a, b) == IF a <= b THEN a ELSE b

\* C7: for every catalog capacity the simulated days are the dates that have
\* night consumption, and on each the offset is
\* min(min(daily_export, 0.90 x capacity), daily_night), a day without export
\* readings counting as daily_export = 0.
C7_OffsetFormula ==
    bat_result # Pending =>
        \A i \in DOMAIN battery_sizes :
            LET offsets == bat_result.battery_analysis[i].savings_per_day
            IN  /\ DOMAIN offsets = C_NightDates
                /\ \A date \in C_NightDates :
                      10 * offsets[date]
                          = C_Min(C_Min(10 * C_ExportOn(date), 9 * battery_sizes[i]),
                                  10 * C_NightOn(date))

\* C7 witness: a day with export 10 kWh and night consumption 8 kWh, whose
\* offset with the 10 kWh battery is 8 kWh, and a day without export readings.
C7_Witness ==
    /\ bat_result # Pending
    /\ \E date \in C_NightDates :
          /\ C_ExportOn(date) = 10000
          /\ C_NightOn(date) = 8000
          /\ \E i \in DOMAIN battery_sizes :
                /\ battery_sizes[i] = 10000
                /\ bat_result.battery_analysis[i].savings_per_day[date] = 8000
    /\ \E date \in C_NightDates :
          /\ \A i \in DOMAIN in_exports : in_exports[i].date # date
          /\ C_NightOn(date) > 0

\* The catalog capacities c with c x 0.90 >= target.
C8_Sufficient ==
    {c \in {battery_sizes[i] : i \in DOMAIN battery_sizes} :
        fb_target.kind = "num" /\ 9 * c * fb_target.d >= 10 * fb_target.n}

\* C8: the recommended capacity is the smallest catalog capacity c with
\* c x 0.90 >= target, and the largest catalog capacity, 80 kWh, when no
\* catalog entry satisfies that.
C8_SmallestSufficient ==
    fb_result # 0 =>
        IF C8_Sufficient = {}
        THEN fb_result = 80000
        ELSE fb_result \in C8_Sufficient /\ \A c \in C8_Sufficient : fb_result <= c

\* C8 witness: a target equal to the usable capacity of the 13.5 kWh
\* battery, for which 13.5 kWh is recommended.
C8_Witness ==
    /\ fb_result = 13500
    /\ fb_target.kind = "num"
    /\ 100 * fb_target.n = 1215000 * fb_target.d

\* C9 as stated: on a dataset spanning 400 days suggest_date_range returns
\* [day 35, day 400] for every calendar placement, and on one spanning 200
\* days the entire span.
C9_Scenario ==
    sd_result # Pending =>
        /\ (sd_data_end - sd_solar_start = 400) =>
              /\ sd_result.raised = None
              /\ sd_result.suggested_start = sd_solar_start + 35
              /\ sd_result.suggested_end = sd_data_end
        /\ (sd_data_end - sd_solar_start = 200) =>
              /\ sd_result.raised = None
              /\ sd_result.suggested_start = sd_solar_start
              /\ sd_result.suggested_end = sd_data_end

\* C10 as stated: for every solar_start <= data_end, suggest_date_range
\* returns a range (s, e) with solar_start <= s <= e <= data_end; and s =
\* solar_start when the span is at least 365 days and one calendar year
\* before data_end falls before solar_start.
C10_RangeWithinData ==
    sd_result # Pending =>
        /\ sd_result.raised = None
        /\ sd_solar_start <= sd_result.suggested_start
        /\ sd_result.suggested_start <= sd_result.suggested_end
        /\ sd_result.suggested_end <= sd_data_end
        /\ LET ey == YearOf(sd_data_end) - 1
               em == MonthOf(sd_data_end)
               ed == DayOf(sd_data_end)
               sy == YearOf(sd_solar_start) + 1
               sm == MonthOf(sd_solar_start)
               sday == DayOf(sd_solar_start)
           IN  (/\ sd_data_end - sd_solar_start >= 365
                /\ ToOrdinal(ey, em, ed) < sd_solar_start)
                   => /\ sd_result.suggested_start = sd_solar_start
                      /\ sd_result.suggested_end
                             = C_Min(ToOrdinal(sy, sm, sday), sd_data_end)

\* C11 as stated: get_summary_stats returns averages of 0 when the selected
\* range has no data days (empty consumption), and percentages of 0 when the
\* total consumption is zero.
C11_ZeroOnDivisionByZero ==
    stats_result # Pending =>
        /\ (in_consumption = <<>>) =>
              /\ stats_result.avg_daily_consumption = Num(0)
              /\ stats_result.avg_daily_export = Num(0)
        /\ (C_SumAt(in_consumption, DOMAIN in_consumption) = 0) =>
              /\ stats_result.sunlight_pct = 0
              /\ stats_result.night_pct = 0
              /\ stats_result.free_window_pct = 0

\* The response of a successful upload or location change.
C_IsChangeResponse(r) == r.status = 200 /\ "success" \in DOMAIN r

\* The response of /api/data once a Dataset was loaded.
C_IsLoadedResponse(r) == (r.status = 200 /\ "stats" \in DOMAIN r) \/ r.status = 500

C12_Step ==
    /\ (resp = NoResponse /\ C_IsChangeResponse(resp')) => cache' = EmptyDict
    /\ (resp = NoResponse /\ cache = EmptyDict /\ C_IsLoadedResponse(resp')) =>
          \E key \in DOMAIN cache' :
              /\ DOMAIN cache' = {key}
              /\ \E path \in DOMAIN disk, postcode \in C_Postcodes :
                    key = CacheKey(path, postcode)
              /\ Get0(ingested', key) = 1
              /\ cache'[key].solar_start = SolarStart(disk[C_PathOf(key)])
              /\ cache'[key].data_end = DataEnd(disk[C_PathOf(key)])

\* C12: the step of a successful upload or location change leaves
\* _data_cache without an entry, and an /api/data request that finds the cache
\* empty reads the file and stores the Dataset it built from it.
C12_ClearedAfterChange == [][C12_Step]_vars

\* C12 witness: a client who uploaded a file and changed the location to
\* Darwin is answered by /api/data with a Dataset ingested once under the
\* new postcode.
C12_Witness ==
    /\ C_IsLoadedResponse(resp)
    /\ \E c \in DOMAIN session :
          /\ "data_file" \in DOMAIN session[c]
          /\ "location" \in DOMAIN session[c]
          /\ work # EmptyDict /\ work.client = c
          /\ CacheKey(session[c]["data_file"], session[c]["location"].postcode)
                 \in DOMAIN cache
          /\ Get0(ingested,
                  CacheKey(session[c]["data_file"], session[c]["location"].postcode)) = 1

\* Two Datasets with the same readings, flags and bounds.
C_SameDataset(a, b) ==
    /\ a.consumption = b.consumption
    /\ a.exports = b.exports
    /\ a.solar_start = b.solar_start
    /\ a.data_end = b.data_end

\* The cache key of the request that was answered with 200.
C_RequestKey(w, sessions) ==
    CacheKey(sessions[w.client]["data_file"],
             IF "location" \in DOMAIN sessions[w.client]
             THEN sessions[w.client]["location"].postcode
             ELSE Melbourne.postcode)

C13_Step ==
    /\ DOMAIN ingested' = DOMAIN cache'
    /\ \A key \in DOMAIN ingested' : ingested'[key] <= 1
    /\ ~(resp = NoResponse /\ C_IsChangeResponse(resp')) =>
          \A key \in DOMAIN cache :
              /\ key \in DOMAIN cache'
              /\ C_SameDataset(cache[key], cache'[key])
              /\ ingested'[key] = ingested[key]
    /\ (resp = NoResponse /\ resp'.status = 200 /\ "stats" \in DOMAIN resp') =>
          LET key == C_RequestKey(work', session)
          IN  key \in DOMAIN cache =>
                  /\ ingested' = ingested
                  /\ DOMAIN cache' = DOMAIN cache
                  /\ resp'.solar_start = cache[key].solar_start
                  /\ resp'.data_end = cache[key].data_end

\* C13: between two cache clears each (file path, postcode) pair is ingested
\* at most once; a request for a pair that has an entry is answered from the
\* stored Dataset without another ingestion, and no step other than a
\* clear removes or replaces the entry of any pair.
C13_IngestedOncePerPair == [][C13_Step]_vars

\* C13 witness: /api/data answered while the cache holds the Datasets of two
\* pairs, each ingested once.
C13_Witness ==
    /\ resp.status = 200 /\ "stats" \in DOMAIN resp
    /\ Cardinality(DOMAIN cache) = 2
    /\ \A key \in DOMAIN cache : Get0(ingested, key) = 1
    /\ \E key \in DOMAIN cache : cache[key].month_column

\* The Dataset a fresh ingestion builds from the file of the client whose
\* /api/data request was answered.
C_FreshDataset == ProcessRows(disk[session[work.client]["data_file"]])

\* C14: the battery part of a successful /api/data response is the
\* recommendation computed over the full Dataset of the client's file, so it
\* is the same for every choice of start_date, end_date and free-window
\* parameters.
C14_BatteryOverFullDataset ==
    (resp.status = 200 /\ "stats" \in DOMAIN resp) =>
        resp.battery = calculate_battery_recommendation(C_FreshDataset.consumption,
                                                        C_FreshDataset.exports)

\* C14 witness: a response whose battery part counts a night that lies
\* outside the selected range.
C14_Witness ==
    /\ resp.status = 200 /\ "stats" \in DOMAIN resp
    /\ \E date \in resp.battery.all_dates :
          /\ (date < resp.analysis_start \/ date > resp.analysis_end)
          /\ resp.battery.daily_night[date] > 0
    /\ \E i \in DOMAIN resp.battery.battery_analysis :
          resp.battery.battery_analysis[i].night_coverage_pct = 0

\* Window times that are not two integer fields separated by one colon.
C15_MalformedTexts ==
    {<<>>,
     <<"1", "1">>,
     <<"1", "1", ":">>,
     <<"1", "1", ":", "0", "0", ":", "0", "0">>,
     <<"a", "m", ":", "0", "0">>,
     <<"1", "1", ".", "0", "0">>}

C15_MalformedRequest ==
    /\ resp.status = 200 /\ "stats" \in DOMAIN resp
    /\ resp.free_window_enabled
    /\ \/ resp.free_window_start \in C15_MalformedTexts
       \/ resp.free_window_end \in C15_MalformedTexts

\* C15: with the free window enabled and a malformed start or end time,
\* /api/data does not fail, is_free_window is false for every consumption and
\* export reading, and free_window_consumption is 0.
C15_MalformedDisablesWindow ==
    /\ resp.status # 500
    /\ C15_MalformedRequest =>
          /\ \A i \in DOMAIN work.consumption : ~work.consumption[i].is_free_window
          /\ \A i \in DOMAIN work.exports : ~work.exports[i].is_free_window
          /\ resp.stats.free_window_consumption = 0
          /\ resp.stats.free_window_pct = 0

\* C15 witness: a successful response to a request whose start time has no
\* colon, over readings at 11:00 that the default window would have flagged.
C15_Witness ==
    /\ C15_MalformedRequest
    /\ resp.free_window_start = <<"1", "1">>
    /\ resp.free_window_end = <<"1", "4", ":", "0", "0">>
    /\ \E i \in DOMAIN work.consumption : work.consumption[i].time = 660
    /\ \E i \in DOMAIN work.exports : work.exports[i].time = 660

\* The query as search compares it: stripped and lower-cased.
C16_Query == ToLower(Strip(sr_query))

\* The rows of the exactly matching postcode, for a numeric query.
C16_IsExact(row) == IsDigits(C16_Query) /\ row.postcode = ZFill(C16_Query, 4)

\* C16 as stated: search returns at most limit locations, without
\* duplicates, each a row of the database that matches by postcode or by
\* locality, with the rows of the exactly matching postcode before the rows
\* matched by locality only.
C16_SearchContract ==
    sr_result # Pending =>
        LET found == sr_result.locations
        IN  /\ Len(found) <= sr_limit
            /\ \A i, j \in DOMAIN found : i # j => found[i] # found[j]
            /\ \A i \in DOMAIN found :
                  /\ InList(found[i], sr_db)
                  /\ \/ C16_IsExact(found[i])
                     \/ Contains(ToLower(found[i].locality), C16_Query)
            /\ \A i, j \in DOMAIN found :
                  (C16_IsExact(found[j]) /\ ~C16_IsExact(found[i])) => j < i

C18_ErrorStep ==
    (resp = NoResponse /\ "error" \in DOMAIN resp') =>
        UNCHANGED <<disk, session, cache>>

C18_ErrorsChangeNothing == [][C18_ErrorStep]_vars

\* C18 as amended: a rejected upload, a rejected location change, an
\* /api/data request without a data file and an ingest that fails validation
\* (the 400 and 404 answers) change neither the uploaded files, nor the
\* sessions, nor the cache; an /api/data request that fails after the ingest
\* (a 500 answer) changes no file, no session and no cache entry that
\* existed, but leaves the Dataset it ingested in the cache.
C18_RejectionStep ==
    (resp = NoResponse /\ "error" \in DOMAIN resp') =>
        /\ UNCHANGED <<disk, session>>
        /\ resp'.status \in {400, 404} => UNCHANGED cache
        /\ \A key \in DOMAIN cache : key \in DOMAIN cache' /\ cache'[key] = cache[key]

C18_RejectionsChangeNothing == [][C18_RejectionStep]_vars

\* C18 witness: an upload is rejected for its extension while the session
\* holds a data file and the cache holds its Dataset.
C18_Witness ==
    /\ resp = Error(400, "Only CSV files are allowed")
    /\ \E c \in DOMAIN session : "data_file" \in DOMAIN session[c]
    /\ cache # EmptyDict

\* C19: every cached Dataset keeps the readings, classification flags and
\* bounds that ingesting its file gives, and a successful /api/data response
\* is the one computed from a fresh ingestion of the client's file, the
\* client's location and the query parameters alone; so two requests with
\* the same file, location and query parameters return identical responses,
\* whether the Dataset was freshly ingested or served from the cache, and
\* whatever other /api/data requests ran before.
C19_ResponseDeterminedByRequest ==
    /\ \A key \in DOMAIN cache :
          C_SameDataset(cache[key], ProcessRows(disk[C_PathOf(key)]))
    /\ (resp.status = 200 /\ "stats" \in DOMAIN resp) =>
          resp = DataResponse(C_FreshDataset, get_location(work.client), work.args).resp

\* C19 witness: a request served from a cached Dataset that an earlier
\* request gave a month column; the handler flagged a reading of its copy as
\* free-window while the cached readings keep the flag unset.
C19_Witness ==
    /\ resp.status = 200 /\ "stats" \in DOMAIN resp
    /\ work.hit
    /\ cache[C_RequestKey(work, session)].month_column
    /\ \E i \in DOMAIN work.consumption : work.consumption[i].is_free_window
    /\ \A i \in DOMAIN cache[C_RequestKey(work, session)].consumption :
          ~cache[C_RequestKey(work, session)].consumption[i].is_free_window

\* The capacities of the catalog.
C_Catalog == {battery_sizes[i] : i \in DOMAIN battery_sizes}

\* C20: for every dataset the recommended minimum capacity is at most the
\* recommended sweet-spot capacity, and the minimum, sweet-spot and maximum
\* capacities are members of the catalog.
C20_MinimumAtMostSweetSpot ==
    bat_result # Pending =>
        /\ bat_result.recommendations.minimum_kwh
               <= bat_result.recommendations.sweet_spot_kwh
        /\ bat_result.recommendations.minimum_kwh \in C_Catalog
        /\ bat_result.recommendations.sweet_spot_kwh \in C_Catalog
        /\ bat_result.recommendations.maximum_kwh \in C_Catalog

\* C20 witness: two summer nights whose 90th and 99th percentiles call for
\* different capacities, and a winter night that calls for a third.
C20_Witness ==
    /\ bat_result # Pending
    /\ bat_result.recommendations.minimum_kwh
           < bat_result.recommendations.sweet_spot_kwh
    /\ bat_result.recommendations.maximum_kwh
           < bat_result.recommendations.minimum_kwh

=============================================================================
